---- MODULE Spec2Model ----
(***************************************************************************)
(* Model of task_manager_simple_cloud.py: the SimpleCloudTaskManager       *)
(* (TaskService + Store over the shared tasks.json) and the Streamlit      *)
(* session flow (main / show_login_page / show_main_app).                  *)
(*                                                                         *)
(* Python values are represented as follows.                               *)
(*   str            a sequence of one-character strings                    *)
(*   None / value   an optional: <<>> is None, <<v>> is the value v        *)
(*   datetime.now().isoformat()   a reading of the integer clock `now`,    *)
(*                  which moves on with every reading: two calls never see *)
(*                  the same instant                                       *)
(*   tasks.json     a record: does it exist, does it parse, and the array  *)
(*                  json.load returns.  json.dump/json.load keep ints,     *)
(*                  strs, bools and None as they are, and keep the order   *)
(*                  of the array, so the array is stored decoded.          *)
(***************************************************************************)
EXTENDS Integers, Sequences, FiniteSets, TLC

\* ---------------------------------------------------------------- bounds
MaxTasks == 2      \* add_task is not called on a working list this long
MaxFile == 3       \* no save is started that would make tasks.json longer
MaxNow == 3        \* one session: datetime.now() is not read once the clock shows this
MaxNowShared == 2  \* the same, when two sessions share tasks.json
MaxNowView == 2    \* the same, for the session that opens the View Tasks page

\* ------------------------------------------------------- Python helpers
None == <<>>
Some(v) == <<v>>

Whitespace == {" "}

RECURSIVE LStrip(_)
LStrip(s) ==
    IF s = <<>> THEN <<>>
    ELSE IF Head(s) \in Whitespace THEN LStrip(Tail(s)) ELSE s

RECURSIVE RStrip(_)
RStrip(s) ==
    IF s = <<>> THEN <<>>
    ELSE IF s[Len(s)] \in Whitespace THEN RStrip(SubSeq(s, 1, Len(s) - 1)) ELSE s

\* str.strip()
Strip(s) == RStrip(LStrip(s))

LowerChar(c) ==
    CASE c = "A" -> "a"
      [] c = "B" -> "b"
      [] OTHER -> c

\* str.lower()
Lower(s) == [i \in 1..Len(s) |-> LowerChar(s[i])]

\* str.replace(old, new) for one-character old and new
Replace(s, old, new) == [i \in 1..Len(s) |-> IF s[i] = old THEN new ELSE s[i]]

\* line 172: email.strip().lower().replace("@", "_").replace(".", "_")
DeriveUserId(email) == Replace(Replace(Lower(Strip(email)), "@", "_"), ".", "_")

\* bool(self.user_id): None and "" are falsy
Truthy(uid) == uid /= None /\ uid[1] /= <<>>

\* --------------------------------------------------------------- inputs
Sessions == {"s1", "s2"}                           \* browser sessions
Names == {<<"n">>, <<>>}                           \* login form: Your Name
Emails == {<<"A", "@", "x">>, <<" ", "b", ".", "y">>, <<" ">>}
Titles == {<<" ", "B">>, <<" ">>}                   \* add form: Task Title
Descriptions == {<<"d", " ">>}                     \* add form: Description
Priorities == {"Medium"}                           \* the form's default, line 248
TaskIds == 1..(MaxTasks + 1)                       \* ids passed to the by-id calls
WriteOutcomes == {"ok", "open_fails", "dump_fails"}
Reliable == {"ok"}                                 \* a disk that does not fail

VARIABLES
    file,            \* tasks.json
    session_state,   \* st.session_state of every session
    now,             \* the clock datetime.now() reads
    pc,              \* where each session is inside save_tasks
    all_tasks        \* save_tasks' local all_tasks of every session

vars == <<file, session_state, now, pc, all_tasks>>

\* ----------------------------------------------------------------- Store
AbsentFile == [exists |-> FALSE, valid |-> FALSE, content |-> <<>>]
CorruptFile == [exists |-> TRUE, valid |-> FALSE, content |-> <<>>]
JsonFile(content) == [exists |-> TRUE, valid |-> TRUE, content |-> content]

\* load_tasks, lines 21-33.  has_user_id says whether self.user_id has been
\* assigned yet: reading it before is an AttributeError, which the except
\* clause of line 31 does not catch.
LoadTasks(f, has_user_id, user_id) ==
    IF f.exists
    THEN IF f.valid
         THEN IF ~has_user_id
              THEN [raised |-> TRUE, value |-> <<>>]
              ELSE IF Truthy(user_id)
                   THEN [raised |-> FALSE,
                         value |-> SelectSeq(f.content, LAMBDA task : task.user_id = user_id)]
                   ELSE [raised |-> FALSE, value |-> f.content]
         ELSE [raised |-> FALSE, value |-> <<>>]
    ELSE [raised |-> FALSE, value |-> <<>>]

\* __init__, lines 13-15: load_tasks runs before self.user_id is assigned
Construct(f) ==
    LET loaded == LoadTasks(f, FALSE, None)
    IN  [raised |-> loaded.raised,
         tm |-> [tasks |-> loaded.value, user_id |-> None]]

\* save_tasks, lines 39-45: the read of the whole file, any error gives []
ReadAllTasks(f) == IF f.exists /\ f.valid THEN f.content ELSE <<>>

\* save_tasks with line 50 left out: the user's old records stay in the file
MergeTasksKeepOld(all, tm) ==
    IF Truthy(tm.user_id) THEN all \o tm.tasks ELSE all

\* save_tasks, lines 48-52: drop this user's records, append the working list
MergeTasks(all, tm) ==
    IF Truthy(tm.user_id)
    THEN SelectSeq(all, LAMBDA task : task.user_id /= tm.user_id) \o tm.tasks
    ELSE all

\* save_tasks, lines 54-57: open(..., 'w') and json.dump; an exception is
\* reported with st.error and swallowed.  open can fail (file untouched) or
\* the dump can fail after open truncated the file (file left unparsable).
WriteFile(f, content, outcome) ==
    CASE outcome = "ok" -> JsonFile(content)
      [] outcome = "open_fails" -> f
      [] outcome = "dump_fails" -> CorruptFile

\* save_tasks as one uninterrupted call
SaveTasks(f, tm, outcome) == WriteFile(f, MergeTasks(ReadAllTasks(f), tm), outcome)

\* ----------------------------------------------------------- TaskService
\* index of the first task with this id, 0 if none (the for loops of 81, 91, 101)
FirstIndex(tasks, task_id) ==
    IF \E i \in 1..Len(tasks) : tasks[i].id = task_id
    THEN CHOOSE i \in 1..Len(tasks) :
            /\ tasks[i].id = task_id
            /\ \A j \in 1..(i - 1) : tasks[j].id /= task_id
    ELSE 0

\* add_task without the check of lines 61-62
AddTaskNoCheck(tm, title, description, priority, t) ==
    [ret |-> TRUE,
     tm |-> [tm EXCEPT !.tasks = Append(@,
                [id |-> Len(tm.tasks) + 1,
                 user_id |-> tm.user_id,
                 title |-> Strip(title),
                 description |-> Strip(description),
                 priority |-> priority,
                 completed |-> FALSE,
                 created_at |-> t,
                 completed_at |-> None])]]

\* add_task, lines 59-77, without the save
AddTask(tm, title, description, priority, t) ==
    IF Strip(title) = <<>>
    THEN [ret |-> FALSE, tm |-> tm]
    ELSE LET task == [id |-> Len(tm.tasks) + 1,
                      user_id |-> tm.user_id,
                      title |-> Strip(title),
                      description |-> Strip(description),
                      priority |-> priority,
                      completed |-> FALSE,
                      created_at |-> t,
                      completed_at |-> None]
         IN  [ret |-> TRUE, tm |-> [tm EXCEPT !.tasks = Append(@, task)]]

\* mark_complete, lines 79-87, without the save
MarkComplete(tm, task_id, t) ==
    LET i == FirstIndex(tm.tasks, task_id)
    IN  IF i = 0
        THEN [ret |-> FALSE, tm |-> tm]
        ELSE [ret |-> TRUE,
              tm |-> [tm EXCEPT !.tasks[i].completed = TRUE,
                                !.tasks[i].completed_at = Some(t)]]

\* mark_incomplete with line 94 left out: completed_at keeps its time
MarkIncompleteKeepTime(tm, task_id) ==
    LET i == FirstIndex(tm.tasks, task_id)
    IN  IF i = 0
        THEN [ret |-> FALSE, tm |-> tm]
        ELSE [ret |-> TRUE, tm |-> [tm EXCEPT !.tasks[i].completed = FALSE]]

\* mark_incomplete, lines 89-97, without the save
MarkIncomplete(tm, task_id) ==
    LET i == FirstIndex(tm.tasks, task_id)
    IN  IF i = 0
        THEN [ret |-> FALSE, tm |-> tm]
        ELSE [ret |-> TRUE,
              tm |-> [tm EXCEPT !.tasks[i].completed = FALSE,
                                !.tasks[i].completed_at = None]]

\* delete_task that deletes the last task when no task has the id
DeleteTaskOrLast(tm, task_id) ==
    LET found == FirstIndex(tm.tasks, task_id)
        i == IF found = 0 THEN Len(tm.tasks) ELSE found
    IN  IF i = 0
        THEN [ret |-> FALSE, tm |-> tm]
        ELSE [ret |-> TRUE,
              tm |-> [tm EXCEPT !.tasks =
                        SubSeq(@, 1, i - 1) \o SubSeq(@, i + 1, Len(@))]]

\* delete_task, lines 99-106, without the save
DeleteTask(tm, task_id) ==
    LET i == FirstIndex(tm.tasks, task_id)
    IN  IF i = 0
        THEN [ret |-> FALSE, tm |-> tm]
        ELSE [ret |-> TRUE,
              tm |-> [tm EXCEPT !.tasks =
                        SubSeq(@, 1, i - 1) \o SubSeq(@, i + 1, Len(@))]]

\* ------------------------------------------------------------ View Tasks
PriorityFilters == {"All", "Low", "Medium", "High"}    \* lines 271-274
SortKeys == {"Created Date", "Priority", "Title"}      \* lines 277-280

\* priority_order.get(x["priority"], 0), lines 293-294
PriorityOrder(priority) ==
    CASE priority = "High" -> 3
      [] priority = "Medium" -> 2
      [] priority = "Low" -> 1
      [] OTHER -> 0

\* the code point of a character, as Python's str comparison uses it
CodePoint(c) ==
    CASE c = " " -> 32
      [] c = "+" -> 43
      [] c = "." -> 46
      [] c = "@" -> 64
      [] c = "A" -> 65
      [] c = "B" -> 66
      [] c = "_" -> 95
      [] c = "a" -> 97
      [] c = "b" -> 98
      [] c = "d" -> 100
      [] c = "n" -> 110
      [] c = "x" -> 120
      [] c = "y" -> 121

\* a < b for two strs
RECURSIVE StrLess(_, _)
StrLess(a, b) ==
    IF b = <<>> THEN FALSE
    ELSE IF a = <<>> THEN TRUE
    ELSE IF Head(a) = Head(b) THEN StrLess(Tail(a), Tail(b))
    ELSE CodePoint(Head(a)) < CodePoint(Head(b))

\* list.sort: before[i][j] says that the key of tasks[i] sorts before the key
\* of tasks[j]; tasks of which neither is before the other keep the order
\* they had (the sort is stable, with reverse=True too)
StableSort(tasks, before) ==
    LET n == Len(tasks)
        place(i) == 1 + Cardinality({j \in 1..n :
                          \/ before[j][i]
                          \/ (~before[i][j] /\ j < i)})
    IN  [k \in 1..n |-> tasks[CHOOSE i \in 1..n : place(i) = k]]

\* the key comparisons of the three sorts of lines 290-296
ByCreatedDate(tasks) ==
    [i \in 1..Len(tasks) |-> [j \in 1..Len(tasks) |->
        tasks[i].created_at > tasks[j].created_at]]
ByPriority(tasks) ==
    [i \in 1..Len(tasks) |-> [j \in 1..Len(tasks) |->
        PriorityOrder(tasks[i].priority) > PriorityOrder(tasks[j].priority)]]
ByTitle(tasks) ==
    [i \in 1..Len(tasks) |-> [j \in 1..Len(tasks) |->
        StrLess(Lower(tasks[i].title), Lower(tasks[j].title))]]

\* lines 290-296 with the priority sort of line 294 without reverse=True
SortTasksNoReverse(tasks, sort_by) ==
    CASE sort_by = "Created Date" -> StableSort(tasks, ByCreatedDate(tasks))
      [] sort_by = "Priority" ->
            StableSort(tasks,
                [i \in 1..Len(tasks) |-> [j \in 1..Len(tasks) |-> ByPriority(tasks)[j][i]]])
      [] sort_by = "Title" -> StableSort(tasks, ByTitle(tasks))
      [] OTHER -> tasks

\* lines 290-296
SortTasks(tasks, sort_by) ==
    CASE sort_by = "Created Date" -> StableSort(tasks, ByCreatedDate(tasks))
      [] sort_by = "Priority" -> StableSort(tasks, ByPriority(tasks))
      [] sort_by = "Title" -> StableSort(tasks, ByTitle(tasks))
      [] OTHER -> tasks

\* get_tasks, lines 108-112: is_self says that the list returned is
\* self.tasks itself, not a new list
GetTasks(tm, show_completed) ==
    IF show_completed
    THEN [is_self |-> TRUE, value |-> tm.tasks]
    ELSE [is_self |-> FALSE, value |-> SelectSeq(tm.tasks, LAMBDA task : ~task.completed)]

\* show_main_app, lines 283-296: the list the page shows, and the manager
\* after it: list.sort sorts in place, so it sorts self.tasks when neither
\* get_tasks nor the priority filter made a new list
ViewTasks(tm, show_completed, priority_filter, sort_by) ==
    LET got == GetTasks(tm, show_completed)
        is_self == got.is_self /\ priority_filter = "All"
        listed == IF priority_filter /= "All"
                  THEN SelectSeq(got.value, LAMBDA task : task.priority = priority_filter)
                  ELSE got.value
        sorted == SortTasks(listed, sort_by)
    IN  [listed |-> listed,
         shown |-> sorted,
         tm |-> IF is_self THEN [tm EXCEPT !.tasks = sorted] ELSE tm]

\* get_task_stats with pending taken for the whole list
GetTaskStatsPendingAll(tm) ==
    LET total == Len(tm.tasks)
        completed == Len(SelectSeq(tm.tasks, LAMBDA task : task.completed))
    IN  [total |-> total, completed |-> completed, pending |-> total]

\* get_task_stats, lines 114-124
GetTaskStats(tm) ==
    LET total == Len(tm.tasks)
        completed == Len(SelectSeq(tm.tasks, LAMBDA task : task.completed))
    IN  [total |-> total, completed |-> completed, pending |-> total - completed]

\* ---------------------------------------------------------------- state
EmptySession ==
    [keys |-> {}, authenticated |-> FALSE, user_info |-> None, task_manager |-> None]

\* a record left in tasks.json by an earlier run of the program
StoredTask ==
    [id |-> 1, user_id |-> Some(<<"a", "_", "x">>), title |-> <<"B">>,
     description |-> <<>>, priority |-> "Medium", completed |-> FALSE,
     created_at |-> 0, completed_at |-> None]

InitFiles == {AbsentFile, CorruptFile, JsonFile(<<>>), JsonFile(<<StoredTask>>)}

Init ==
    /\ file \in InitFiles
    /\ session_state = [s \in Sessions |-> EmptySession]
    /\ now = 0
    /\ pc = [s \in Sessions |-> "idle"]
    /\ all_tasks = [s \in Sessions |-> <<>>]

HasManager(s) == "task_manager" \in session_state[s].keys
Manager(s) == session_state[s].task_manager[1]
Authenticated(s) == HasManager(s) /\ session_state[s].authenticated

\* ------------------------------------------------------------- handlers
\* main, lines 133-139, of a session that has no task_manager yet: the
\* constructor raises out of main when tasks.json holds valid JSON.
Main(s) ==
    /\ ~HasManager(s)
    /\ pc[s] = "idle"
    /\ LET made == Construct(file)
       IN  session_state' = [session_state EXCEPT ![s] =
                IF made.raised
                THEN [@ EXCEPT !.keys = @ \cup {"authenticated", "user_info"}]
                ELSE [@ EXCEPT !.keys = {"authenticated", "user_info", "task_manager"},
                               !.task_manager = Some(made.tm)]]
    /\ UNCHANGED <<file, now, pc, all_tasks>>

\* the login form with line 170 testing email.strip() only
SignInChecksEmailOnly(s, name, email) ==
    /\ HasManager(s)
    /\ ~session_state[s].authenticated
    /\ pc[s] = "idle"
    /\ IF Strip(email) /= <<>>
       THEN LET user_id == DeriveUserId(email)
            IN  session_state' = [session_state EXCEPT ![s] =
                      [@ EXCEPT !.authenticated = TRUE,
                                !.user_info = Some([user_id |-> user_id,
                                                    email |-> Strip(email),
                                                    name |-> Strip(name),
                                                    picture |-> Replace(name, " ", "+")]),
                                !.task_manager = Some([Manager(s) EXCEPT
                                                        !.user_id = Some(user_id)])]]
       ELSE session_state' = session_state
    /\ UNCHANGED <<file, now, pc, all_tasks>>

\* the login form without the set_user_id call of line 182
SignInNoSetUserId(s, name, email) ==
    /\ HasManager(s)
    /\ ~session_state[s].authenticated
    /\ pc[s] = "idle"
    /\ IF Strip(name) /= <<>> /\ Strip(email) /= <<>>
       THEN LET user_id == DeriveUserId(email)
            IN  session_state' = [session_state EXCEPT ![s] =
                      [@ EXCEPT !.authenticated = TRUE,
                                !.user_info = Some([user_id |-> user_id,
                                                    email |-> Strip(email),
                                                    name |-> Strip(name),
                                                    picture |-> Replace(name, " ", "+")])]]
       ELSE session_state' = session_state
    /\ UNCHANGED <<file, now, pc, all_tasks>>

\* show_login_page, lines 169-184: the login form is submitted
SignIn(s, name, email) ==
    /\ HasManager(s)
    /\ ~session_state[s].authenticated
    /\ pc[s] = "idle"
    /\ IF Strip(name) /= <<>> /\ Strip(email) /= <<>>
       THEN LET user_id == DeriveUserId(email)
            IN  session_state' = [session_state EXCEPT ![s] =
                      [@ EXCEPT !.authenticated = TRUE,
                                !.user_info = Some([user_id |-> user_id,
                                                    email |-> Strip(email),
                                                    name |-> Strip(name),
                                                    picture |-> Replace(name, " ", "+")]),
                                \* set_user_id, lines 17-19
                                !.task_manager = Some([Manager(s) EXCEPT
                                                        !.user_id = Some(user_id)])]]
       ELSE session_state' = session_state
    /\ UNCHANGED <<file, now, pc, all_tasks>>

\* show_main_app, lines 210-214: the Sign Out button.  When the constructor
\* raises, line 213 assigns nothing and the old task_manager stays.
SignOut(s) ==
    /\ Authenticated(s)
    /\ pc[s] = "idle"
    /\ LET made == Construct(file)
       IN  session_state' = [session_state EXCEPT ![s] =
                [@ EXCEPT !.authenticated = FALSE,
                          !.user_info = None,
                          !.task_manager = IF made.raised THEN @ ELSE Some(made.tm)]]
    /\ UNCHANGED <<file, now, pc, all_tasks>>

\* a call that puts the working list back when the write of its save fails
MutateRollback(s, op, result, reads_clock, atomic, outcome) ==
    /\ session_state' = IF result.ret /\ outcome /= "ok"
                        THEN session_state
                        ELSE [session_state EXCEPT ![s].task_manager = Some(result.tm)]
    /\ now' = IF result.ret /\ reads_clock THEN now + 1 ELSE now
    /\ IF ~result.ret
       THEN /\ outcome = "ok"
            /\ UNCHANGED <<file, pc, all_tasks>>
       ELSE /\ Len(MergeTasks(ReadAllTasks(file), result.tm)) <= MaxFile
            /\ IF atomic
               THEN /\ file' = SaveTasks(file, result.tm, outcome)
                    /\ UNCHANGED <<pc, all_tasks>>
               ELSE /\ outcome = "ok"
                    /\ pc' = [pc EXCEPT ![s] = op]
                    /\ all_tasks' = [all_tasks EXCEPT ![s] = ReadAllTasks(file)]
                    /\ UNCHANGED file

\* A TaskService call and the save_tasks it ends with.  result is what the
\* call did to the working list, reads_clock whether it reads datetime.now()
\* when it succeeds.  With atomic the save is part of the step and outcome is
\* how its write ended; without, the step ends after the save has read
\* tasks.json (lines 39-45) and SaveWrite is the rest of the call.
Mutate(s, op, result, reads_clock, atomic, outcome) ==
    /\ session_state' = [session_state EXCEPT ![s].task_manager = Some(result.tm)]
    /\ now' = IF result.ret /\ reads_clock THEN now + 1 ELSE now
    /\ IF ~result.ret
       THEN /\ outcome = "ok"
            /\ UNCHANGED <<file, pc, all_tasks>>
       ELSE /\ Len(MergeTasks(ReadAllTasks(file), result.tm)) <= MaxFile
            /\ IF atomic
               THEN /\ file' = SaveTasks(file, result.tm, outcome)
                    /\ UNCHANGED <<pc, all_tasks>>
               ELSE /\ outcome = "ok"
                    /\ pc' = [pc EXCEPT ![s] = op]
                    /\ all_tasks' = [all_tasks EXCEPT ![s] = ReadAllTasks(file)]
                    /\ UNCHANGED file

\* save_tasks holding a lock from its read to its write: the write merges
\* into what tasks.json holds now
SaveWriteLocked(s, outcome) ==
    /\ pc[s] /= "idle"
    /\ file' = WriteFile(file, MergeTasks(ReadAllTasks(file), Manager(s)), outcome)
    /\ pc' = [pc EXCEPT ![s] = "idle"]
    /\ all_tasks' = [all_tasks EXCEPT ![s] = <<>>]
    /\ UNCHANGED <<session_state, now>>

\* save_tasks, lines 48-57, of a call whose save has read tasks.json: the
\* merge, the write, and the return True of the call
SaveWrite(s, outcome) ==
    /\ pc[s] /= "idle"
    /\ file' = WriteFile(file, MergeTasks(all_tasks[s], Manager(s)), outcome)
    /\ pc' = [pc EXCEPT ![s] = "idle"]
    /\ all_tasks' = [all_tasks EXCEPT ![s] = <<>>]
    /\ UNCHANGED <<session_state, now>>

\* show_main_app, lines 253-258: the Add Task form is submitted
DoAddTask(s, title, description, priority, limit, atomic, outcome) ==
    /\ Authenticated(s)
    /\ pc[s] = "idle"
    /\ Len(Manager(s).tasks) < MaxTasks
    /\ now < limit
    /\ Mutate(s, "add_task", AddTask(Manager(s), title, description, priority, now),
              TRUE, atomic, outcome)

\* show_main_app, lines 338-340: the Complete button
DoMarkComplete(s, task_id, limit, atomic, outcome) ==
    /\ Authenticated(s)
    /\ pc[s] = "idle"
    /\ now < limit
    /\ Mutate(s, "mark_complete", MarkComplete(Manager(s), task_id, now),
              TRUE, atomic, outcome)

\* show_main_app, lines 334-336: the Undo button
DoMarkIncomplete(s, task_id, atomic, outcome) ==
    /\ Authenticated(s)
    /\ pc[s] = "idle"
    /\ Mutate(s, "mark_incomplete", MarkIncomplete(Manager(s), task_id),
              FALSE, atomic, outcome)

\* show_main_app, lines 344-346: the Delete button
DoDeleteTask(s, task_id, atomic, outcome) ==
    /\ Authenticated(s)
    /\ pc[s] = "idle"
    /\ Mutate(s, "delete_task", DeleteTask(Manager(s), task_id),
              FALSE, atomic, outcome)

\* show_main_app, lines 261-296: the View Tasks page is rendered and no
\* button of a row is pressed
Render(s, show_completed, priority_filter, sort_by) ==
    /\ Authenticated(s)
    /\ pc[s] = "idle"
    /\ session_state' = [session_state EXCEPT ![s].task_manager =
            Some(ViewTasks(Manager(s), show_completed, priority_filter, sort_by).tm)]
    /\ UNCHANGED <<file, now, pc, all_tasks>>

\* the script runs of the sessions S that start a session or sign it in
SessionStart(S) ==
    \/ \E s \in S : Main(s)
    \/ \E s \in S, name \in Names, email \in Emails : SignIn(s, name, email)

\* the script runs of the sessions S that press a button of the main app or
\* submit its form, with the clock read below limit; outcomes are the ways a
\* write may end
TaskCalls(S, limit, atomic, outcomes) ==
    \/ \E s \in S, title \in Titles, description \in Descriptions,
          priority \in Priorities, outcome \in outcomes :
            DoAddTask(s, title, description, priority, limit, atomic, outcome)
    \/ \E s \in S, task_id \in TaskIds, outcome \in outcomes :
            DoMarkComplete(s, task_id, limit, atomic, outcome)
    \/ \E s \in S, task_id \in TaskIds, outcome \in outcomes :
            DoMarkIncomplete(s, task_id, atomic, outcome)
    \/ \E s \in S, task_id \in TaskIds, outcome \in outcomes :
            DoDeleteTask(s, task_id, atomic, outcome)

\* one session, on a disk whose writes may fail
Next ==
    \/ SessionStart({"s1"})
    \/ SignOut("s1")
    \/ TaskCalls({"s1"}, MaxNow, TRUE, WriteOutcomes)

Spec == Init /\ [][Next]_vars

\* two sessions whose script runs do not overlap, on a disk that does not fail
NextShared ==
    \/ SessionStart(Sessions)
    \/ \E s \in Sessions : SignOut(s)
    \/ TaskCalls(Sessions, MaxNowShared, TRUE, Reliable)

SpecShared == Init /\ [][NextShared]_vars

\* two sessions that stay signed in and whose script runs overlap inside
\* save_tasks: a call's save has read tasks.json and not yet written it while
\* the other session's call runs
NextRace ==
    \/ SessionStart(Sessions)
    \/ TaskCalls(Sessions, MaxNow, FALSE, Reliable)
    \/ \E s \in Sessions, outcome \in Reliable : SaveWrite(s, outcome)

SpecRace == Init /\ [][NextRace]_vars

\* the Add Task form with any of its priorities (line 247) and two titles
\* that differ in case
ViewPriorities == {"Low", "Medium", "High"}
ViewTitles == {<<" ", "B">>, <<"a">>}

\* one session that also opens the View Tasks page, on a disk that does not
\* fail
NextView ==
    \/ SessionStart({"s1"})
    \/ SignOut("s1")
    \/ TaskCalls({"s1"}, MaxNowView, TRUE, Reliable)
    \/ \E title \in ViewTitles, description \in Descriptions, priority \in ViewPriorities :
          DoAddTask("s1", title, description, priority, MaxNowView, TRUE, "ok")
    \/ \E show_completed \in BOOLEAN, priority_filter \in PriorityFilters,
          sort_by \in SortKeys :
            Render("s1", show_completed, priority_filter, sort_by)

SpecView == Init /\ [][NextView]_vars

\* ------------------------------------------------------ claims: helpers
TasksOf(ss, s) == ss[s].task_manager[1].tasks
UserIdOf(ss, s) == ss[s].task_manager[1].user_id

\* the records of a task list that belong to user_id, and the others
Mine(all, user_id) == SelectSeq(all, LAMBDA task : task.user_id = user_id)
Others(all, user_id) == SelectSeq(all, LAMBDA task : task.user_id /= user_id)

\* every task of the working list carries the manager's own user_id
Owned(tm) == \A i \in 1..Len(tm.tasks) : tm.tasks[i].user_id = tm.user_id

\* the step is a call of session s that returned True, with its save inside
\* the step and the write of the save ending as outcome
ReturnedTrue(s, outcome) ==
    \/ \E title \in Titles, description \in Descriptions, priority \in Priorities :
          /\ DoAddTask(s, title, description, priority, MaxNow, TRUE, outcome)
          /\ AddTask(Manager(s), title, description, priority, now).ret
    \/ \E task_id \in TaskIds :
          /\ DoMarkComplete(s, task_id, MaxNow, TRUE, outcome)
          /\ MarkComplete(Manager(s), task_id, now).ret
    \/ \E task_id \in TaskIds :
          /\ DoMarkIncomplete(s, task_id, TRUE, outcome)
          /\ MarkIncomplete(Manager(s), task_id).ret
    \/ \E task_id \in TaskIds :
          /\ DoDeleteTask(s, task_id, TRUE, outcome)
          /\ DeleteTask(Manager(s), task_id).ret

\* ------------------------------------------------------------------- C1
\* C1: in every reachable state no two tasks of a session's working list
\* have the same id.
C1_UniqueIds ==
    \A s \in Sessions :
        HasManager(s) =>
            \A i, j \in 1..Len(Manager(s).tasks) :
                i /= j => Manager(s).tasks[i].id /= Manager(s).tasks[j].id

\* ------------------------------------------------------------------- C2
\* C2: a delete_task(id) that returns True removes exactly one record from
\* the working list, and the same delete_task(id) called right after it
\* returns False and removes nothing.
C2_DeleteThenDeleteFails ==
    [][\A s \in Sessions, task_id \in TaskIds, outcome \in WriteOutcomes :
          (/\ DoDeleteTask(s, task_id, TRUE, outcome)
           /\ DeleteTask(Manager(s), task_id).ret)
          => /\ Len(TasksOf(session_state', s)) = Len(Manager(s).tasks) - 1
             /\ ~DeleteTask(session_state'[s].task_manager[1], task_id).ret
             /\ DeleteTask(session_state'[s].task_manager[1], task_id).tm
                  = session_state'[s].task_manager[1]]_vars

\* ------------------------------------------------------------------- C3
\* C3: right after a sign-in that succeeded, the working list of the session
\* is what load_tasks returns from tasks.json for the user id derived from
\* the submitted email.
C3_SignInReloads ==
    [][\A s \in Sessions, name \in Names, email \in Emails :
          (SignIn(s, name, email) /\ session_state'[s].authenticated)
          => TasksOf(session_state', s)
               = LoadTasks(file', TRUE, Some(DeriveUserId(email))).value]_vars

\* ------------------------------------------------------------------- C4
\* C4: in every reachable state every task of a session's working list has
\* the user_id of the session's TaskService.
C4_OnlyOwnRecords ==
    \A s \in Sessions : HasManager(s) => Owned(Manager(s))

\* ------------------------------------------------------------------- C5
\* C5: load_tasks never raises, the load of the constructor included: a
\* script run that constructs a SimpleCloudTaskManager (main's first run,
\* the Sign Out button) leaves the session with the new manager, whose
\* working list is empty when tasks.json is absent or is not valid JSON.
C5_ConstructorLoads ==
    [][\A s \in Sessions :
          (Main(s) \/ SignOut(s))
          => /\ HasManager(s)'
             /\ UserIdOf(session_state', s) = None
             /\ (~file.exists \/ ~file.valid) => TasksOf(session_state', s) = <<>>]_vars

\* ------------------------------------------------------------------- C6
\* C6: for the TaskService of any session whose working list T holds only
\* tasks of its own user id X, and for any tasks.json the program can have
\* produced, records of other users included: save_tasks with a write that
\* succeeds, then load_tasks for X, returns exactly T.
C6_SaveLoadRoundTrip ==
    \A s \in Sessions :
        (HasManager(s) /\ Truthy(Manager(s).user_id) /\ Owned(Manager(s)))
        => LoadTasks(SaveTasks(file, Manager(s), "ok"), TRUE, Manager(s).user_id).value
             = Manager(s).tasks

\* a save has been made of a working list that is not empty into a file that
\* also holds records of another user
C6_Witness ==
    \E s \in Sessions :
        /\ HasManager(s)
        /\ Truthy(Manager(s).user_id)
        /\ Owned(Manager(s))
        /\ Manager(s).tasks /= <<>>
        /\ file.exists /\ file.valid
        /\ Others(file.content, Manager(s).user_id) /= <<>>
        /\ file = SaveTasks(file, Manager(s), "ok")
        /\ LoadTasks(file, TRUE, Manager(s).user_id).value = Manager(s).tasks

\* ------------------------------------------------------------------- C7
\* C7: with script runs that do not overlap, a call under user id X that
\* returns True and whose write succeeds leaves the records of tasks.json
\* that belong to other users as they were: the same records in the same
\* order.
C7_OthersUntouched ==
    [][\A s \in Sessions :
          ReturnedTrue(s, "ok")
          => Others(ReadAllTasks(file'), Manager(s).user_id)
               = Others(ReadAllTasks(file), Manager(s).user_id)]_vars

\* ------------------------------------------------------------------- C8
\* C8: after every add_task, mark_complete, mark_incomplete or delete_task
\* that returns True and whose write succeeds, the records of tasks.json
\* that belong to the session's user id are exactly its working list, in the
\* same order.
C8_SavedIsWorkingList ==
    [][\A s \in Sessions :
          ReturnedTrue(s, "ok")
          => Mine(ReadAllTasks(file'), UserIdOf(session_state', s))
               = TasksOf(session_state', s)]_vars

\* ------------------------------------------------------------------- C9
\* C9: save_tasks takes no lock: when the write of a save succeeds, a record
\* of another user that is in tasks.json now, and was not yet when this save
\* read the file, is gone from the file after the write.  A state is reached
\* in which a session's completed save is lost in this way.
C9_WriteReplacesFile ==
    [][\A s \in Sessions :
          SaveWrite(s, "ok")
          => \A i \in 1..Len(ReadAllTasks(file)) :
                (/\ file.content[i].user_id /= Manager(s).user_id
                 /\ \A j \in 1..Len(all_tasks[s]) : all_tasks[s][j] /= file.content[i])
                => \A k \in 1..Len(file'.content) : file'.content[k] /= file.content[i]]_vars

\* both sessions are signed in under different user ids and have completed
\* their saves, and tasks.json holds the working list of one of them and no
\* record of the other's
C9_LostUpdate ==
    \E s, t \in Sessions :
        /\ Authenticated(s) /\ Authenticated(t)
        /\ pc[s] = "idle" /\ pc[t] = "idle"
        /\ Manager(s).user_id /= Manager(t).user_id
        /\ Owned(Manager(s)) /\ Owned(Manager(t))
        /\ Manager(s).tasks /= <<>>
        /\ Manager(t).tasks /= <<>>
        /\ file.exists /\ file.valid
        /\ Mine(file.content, Manager(s).user_id) = <<>>
        /\ Mine(file.content, Manager(t).user_id) = Manager(t).tasks

\* ------------------------------------------------------------------ C10
\* C10: in every reachable state each task of a working list has
\* completed_at set if and only if completed is True: add_task appends a task
\* with completed False and completed_at None, mark_complete sets completed
\* True and completed_at to a time, mark_incomplete sets completed False and
\* completed_at None.
C10_Consistent(tasks) ==
    \A i \in 1..Len(tasks) : (tasks[i].completed_at /= None) <=> tasks[i].completed

C10_CompletedAtIffCompleted ==
    /\ [](\A s \in Sessions : HasManager(s) => C10_Consistent(Manager(s).tasks))
    /\ [][\A s \in Sessions, outcome \in WriteOutcomes :
            /\ \A title \in Titles, description \in Descriptions, priority \in Priorities :
                  (/\ DoAddTask(s, title, description, priority, MaxNow, TRUE, outcome)
                   /\ AddTask(Manager(s), title, description, priority, now).ret)
                  => LET tasks == TasksOf(session_state', s)
                     IN  /\ Len(tasks) = Len(Manager(s).tasks) + 1
                         /\ ~tasks[Len(tasks)].completed
                         /\ tasks[Len(tasks)].completed_at = None
            /\ \A task_id \in TaskIds :
                  (/\ DoMarkComplete(s, task_id, MaxNow, TRUE, outcome)
                   /\ MarkComplete(Manager(s), task_id, now).ret)
                  => LET task == TasksOf(session_state', s)[FirstIndex(Manager(s).tasks, task_id)]
                     IN  task.id = task_id /\ task.completed /\ task.completed_at /= None
            /\ \A task_id \in TaskIds :
                  (/\ DoMarkIncomplete(s, task_id, TRUE, outcome)
                   /\ MarkIncomplete(Manager(s), task_id).ret)
                  => LET task == TasksOf(session_state', s)[FirstIndex(Manager(s).tasks, task_id)]
                     IN  task.id = task_id /\ ~task.completed /\ task.completed_at = None]_vars

\* mark_complete has completed a task, next to one that add_task left open
C10_Witness ==
    \E s \in Sessions :
        /\ HasManager(s)
        /\ \E i, j \in 1..Len(Manager(s).tasks) :
              /\ Manager(s).tasks[i].completed
              /\ Manager(s).tasks[i].completed_at /= None
              /\ ~Manager(s).tasks[j].completed

\* ------------------------------------------------------------------ C11
\* C11: add_task with a title that is empty or only whitespace returns False
\* and leaves the working list and tasks.json as they were: nothing is
\* appended and save_tasks is not called.
BlankTitles == {<<>>, <<" ">>, <<" ", " ">>}

C11_BlankTitleRejected ==
    /\ [](\A s \in Sessions :
            HasManager(s) =>
                \A title \in BlankTitles, description \in Descriptions,
                   priority \in ViewPriorities :
                    AddTask(Manager(s), title, description, priority, now)
                      = [ret |-> FALSE, tm |-> Manager(s)])
    /\ [][\A s \in Sessions, title \in BlankTitles, description \in Descriptions,
             priority \in Priorities, outcome \in WriteOutcomes :
            (/\ DoAddTask(s, title, description, priority, MaxNow, TRUE, outcome)
             /\ Strip(title) = <<>>)
            => UNCHANGED <<session_state, file, now>>]_vars

\* a signed-in session whose working list and tasks.json hold a task, and
\* for which add_task(" ") returns False
C11_Witness ==
    \E s \in Sessions :
        /\ Authenticated(s)
        /\ pc[s] = "idle"
        /\ Manager(s).tasks /= <<>>
        /\ file.exists /\ file.valid /\ file.content = Manager(s).tasks
        /\ now < MaxNow
        /\ ~AddTask(Manager(s), <<" ">>, <<"d", " ">>, "Medium", now).ret

\* ------------------------------------------------------------------ C12
\* C12: mark_complete, mark_incomplete and delete_task called with an id
\* that no task of the working list has return False and leave the working
\* list and tasks.json as they were.
NoTaskHas(tasks, task_id) == \A i \in 1..Len(tasks) : tasks[i].id /= task_id

C12_MissingIdRejected ==
    /\ [](\A s \in Sessions, task_id \in 0..(MaxTasks + 1) :
            (HasManager(s) /\ NoTaskHas(Manager(s).tasks, task_id))
            => /\ MarkComplete(Manager(s), task_id, now) = [ret |-> FALSE, tm |-> Manager(s)]
               /\ MarkIncomplete(Manager(s), task_id) = [ret |-> FALSE, tm |-> Manager(s)]
               /\ DeleteTask(Manager(s), task_id) = [ret |-> FALSE, tm |-> Manager(s)])
    /\ [][\A s \in Sessions, task_id \in TaskIds, outcome \in WriteOutcomes :
            (/\ \/ DoMarkComplete(s, task_id, MaxNow, TRUE, outcome)
                \/ DoMarkIncomplete(s, task_id, TRUE, outcome)
                \/ DoDeleteTask(s, task_id, TRUE, outcome)
             /\ NoTaskHas(Manager(s).tasks, task_id))
            => UNCHANGED <<session_state, file, now>>]_vars

\* a signed-in session whose working list and tasks.json hold a task, and an
\* id that no task of the list has, for which the three calls return False
C12_Witness ==
    \E s \in Sessions, task_id \in TaskIds :
        /\ Authenticated(s)
        /\ pc[s] = "idle"
        /\ Manager(s).tasks /= <<>>
        /\ file.exists /\ file.valid /\ file.content = Manager(s).tasks
        /\ now < MaxNow
        /\ NoTaskHas(Manager(s).tasks, task_id)
        /\ ~MarkComplete(Manager(s), task_id, now).ret
        /\ ~MarkIncomplete(Manager(s), task_id).ret
        /\ ~DeleteTask(Manager(s), task_id).ret

\* ------------------------------------------------------------------ C13
\* C13: the Sign Out button, pressed in any signed-in state, leaves the
\* session not authenticated, with no user info, and with a newly
\* constructed TaskService in place of the old one: the session's manager no
\* longer has the user id of the user who signed out.
C13_SignOutDiscards ==
    [][\A s \in Sessions :
          SignOut(s)
          => /\ ~session_state'[s].authenticated
             /\ session_state'[s].user_info = None
             /\ UserIdOf(session_state', s) = None
             /\ UserIdOf(session_state', s) /= Manager(s).user_id]_vars

\* ------------------------------------------------------------------ C14
\* C14: a submission of the login form whose name or email is empty after
\* strip() changes nothing: the session stays not authenticated, its user
\* info stays None, and the user id and working list of its TaskService are
\* what they were.
C14_BlankSignInRejected ==
    /\ [](\A s \in Sessions :
            (HasManager(s) /\ ~session_state[s].authenticated)
            => session_state[s].user_info = None)
    /\ [][\A s \in Sessions, name \in Names, email \in Emails :
            (/\ SignIn(s, name, email)
             /\ (Strip(name) = <<>> \/ Strip(email) = <<>>))
            => UNCHANGED vars]_vars

\* a session that is not signed in, whose TaskService has a user id and a
\* working list that is not empty
C14_Witness ==
    \E s \in Sessions :
        /\ HasManager(s)
        /\ ~session_state[s].authenticated
        /\ pc[s] = "idle"
        /\ session_state[s].user_info = None
        /\ Truthy(Manager(s).user_id)
        /\ Manager(s).tasks /= <<>>

\* ------------------------------------------------------------------ C15
\* C15: a run of the View Tasks page with any show-completed setting,
\* priority filter and sort key, in which no button of a row is pressed,
\* leaves the working list of the TaskService as it was: the same tasks in
\* the same order.
C15_RenderReadsOnly ==
    [][\A s \in Sessions, show_completed \in BOOLEAN,
          priority_filter \in PriorityFilters, sort_by \in SortKeys :
          Render(s, show_completed, priority_filter, sort_by)
          => TasksOf(session_state', s) = Manager(s).tasks]_vars

\* ------------------------------------------------------------------ C16
\* C16: in every reachable state get_task_stats returns total = the number
\* of tasks of the working list, completed = the number of them whose
\* completed is True, and pending with total = completed + pending; for a
\* working list of two tasks of which the first is completed and the second
\* is not it returns total 2, completed 1, pending 1.
C16_StatsCount ==
    \A s \in Sessions :
        HasManager(s) =>
            LET tasks == Manager(s).tasks
                stats == GetTaskStats(Manager(s))
            IN  /\ stats.total = Len(tasks)
                /\ stats.completed = Cardinality({i \in 1..Len(tasks) : tasks[i].completed})
                /\ stats.total = stats.completed + stats.pending
                /\ (Len(tasks) = 2 /\ tasks[1].completed /\ ~tasks[2].completed)
                   => stats = [total |-> 2, completed |-> 1, pending |-> 1]

\* two tasks have been added and the first of them marked complete
C16_Witness ==
    \E s \in Sessions :
        /\ Authenticated(s)
        /\ Len(Manager(s).tasks) = 2
        /\ Manager(s).tasks[1].id = 1 /\ Manager(s).tasks[1].completed
        /\ Manager(s).tasks[2].id = 2 /\ ~Manager(s).tasks[2].completed
        /\ Manager(s).tasks[1].created_at < Manager(s).tasks[2].created_at
        /\ Manager(s).tasks[1].completed_at = Some(Manager(s).tasks[2].created_at + 1)
        /\ GetTaskStats(Manager(s)) = [total |-> 2, completed |-> 1, pending |-> 1]

\* ------------------------------------------------------------------ C17
\* C17: the View Tasks page sorted by Priority shows a permutation of the
\* tasks it lists, in which no task comes before a task of strictly higher
\* priority, with High above Medium above Low; for a Low task followed by a
\* High task it shows the High task first.
Higher(p, q) == <<p, q>> \in {<<"High", "Medium">>, <<"High", "Low">>, <<"Medium", "Low">>}

Permutation(a, b) ==
    /\ Len(a) = Len(b)
    /\ \A k \in 1..Len(a) :
          Cardinality({i \in 1..Len(b) : b[i] = a[k]})
            = Cardinality({i \in 1..Len(a) : a[i] = a[k]})

C17_PrioritySort ==
    \A s \in Sessions :
        HasManager(s) =>
            /\ \A show_completed \in BOOLEAN, priority_filter \in PriorityFilters :
                  LET view == ViewTasks(Manager(s), show_completed, priority_filter, "Priority")
                  IN  /\ Permutation(view.listed, view.shown)
                      /\ \A i, j \in 1..Len(view.shown) :
                            i < j => ~Higher(view.shown[j].priority, view.shown[i].priority)
            /\ LET tasks == Manager(s).tasks
               IN  (Len(tasks) = 2 /\ tasks[1].priority = "Low" /\ tasks[2].priority = "High")
                   => ViewTasks(Manager(s), TRUE, "All", "Priority").shown
                        = <<tasks[2], tasks[1]>>

\* a Low task and then a High task have been added, and the page sorted by
\* Priority shows the High task first
C17_Witness ==
    \E s \in Sessions :
        /\ Authenticated(s)
        /\ Len(Manager(s).tasks) = 2
        /\ Manager(s).tasks[1].priority = "Low"
        /\ Manager(s).tasks[2].priority = "High"
        /\ Manager(s).tasks[1].created_at < Manager(s).tasks[2].created_at
        /\ Manager(s).tasks[1].title /= Manager(s).tasks[2].title
        /\ LET shown == ViewTasks(Manager(s), TRUE, "All", "Priority").shown
           IN  /\ shown[1].title = Manager(s).tasks[2].title
               /\ shown[2].title = Manager(s).tasks[1].title

\* ------------------------------------------------------------------ C18
\* C18: when the write of save_tasks fails inside add_task, mark_complete,
\* mark_incomplete or delete_task, the call still returns True and the
\* working list keeps the change of the call, while tasks.json is left as it
\* was or unparsable; a state is reached in which the working list is not
\* what tasks.json holds for the session's user id.
FailedWrites == WriteOutcomes \ {"ok"}

C18_FailedWriteKeepsChange ==
    [][\A s \in Sessions, outcome \in FailedWrites :
          /\ ReturnedTrue(s, outcome) => file' \in {file, CorruptFile}
          /\ \A title \in Titles, description \in Descriptions, priority \in Priorities :
                (/\ DoAddTask(s, title, description, priority, MaxNow, TRUE, outcome)
                 /\ Strip(title) /= <<>>)
                => /\ AddTask(Manager(s), title, description, priority, now).ret
                   /\ session_state'[s].task_manager[1]
                        = AddTask(Manager(s), title, description, priority, now).tm
                   /\ Len(TasksOf(session_state', s)) = Len(Manager(s).tasks) + 1
          /\ \A task_id \in TaskIds :
                (/\ DoMarkComplete(s, task_id, MaxNow, TRUE, outcome)
                 /\ ~NoTaskHas(Manager(s).tasks, task_id))
                => /\ MarkComplete(Manager(s), task_id, now).ret
                   /\ session_state'[s].task_manager[1]
                        = MarkComplete(Manager(s), task_id, now).tm
                   /\ \E i \in 1..Len(Manager(s).tasks) :
                         /\ Manager(s).tasks[i].id = task_id
                         /\ TasksOf(session_state', s)[i].completed
          /\ \A task_id \in TaskIds :
                (/\ DoMarkIncomplete(s, task_id, TRUE, outcome)
                 /\ ~NoTaskHas(Manager(s).tasks, task_id))
                => /\ MarkIncomplete(Manager(s), task_id).ret
                   /\ session_state'[s].task_manager[1]
                        = MarkIncomplete(Manager(s), task_id).tm
                   /\ \E i \in 1..Len(Manager(s).tasks) :
                         /\ Manager(s).tasks[i].id = task_id
                         /\ ~TasksOf(session_state', s)[i].completed
          /\ \A task_id \in TaskIds :
                (/\ DoDeleteTask(s, task_id, TRUE, outcome)
                 /\ ~NoTaskHas(Manager(s).tasks, task_id))
                => /\ DeleteTask(Manager(s), task_id).ret
                   /\ session_state'[s].task_manager[1]
                        = DeleteTask(Manager(s), task_id).tm
                   /\ Len(TasksOf(session_state', s)) = Len(Manager(s).tasks) - 1]_vars

\* the session's working list holds a task of its own user id and tasks.json
\* does not exist: the open of the only save so far failed
C18_Witness ==
    \E s \in Sessions :
        /\ Authenticated(s)
        /\ Owned(Manager(s))
        /\ Manager(s).tasks /= <<>>
        /\ ~file.exists
        /\ Mine(ReadAllTasks(file), Manager(s).user_id) /= Manager(s).tasks

\* ------------------------------------------------------------------ C19
\* C19: in every reachable state a session that is authenticated has its
\* user info set, and the user id of its TaskService is the id derived from
\* the email it signed in with; working lists and tasks.json change only in
\* steps of a session that is authenticated, and no task of a working list
\* or of tasks.json has an unset user id.
C19_AuthenticatedIdentity ==
    /\ [](/\ \A s \in Sessions :
                Authenticated(s) =>
                    /\ session_state[s].user_info /= None
                    /\ Truthy(Manager(s).user_id)
                    /\ Manager(s).user_id
                         = Some(DeriveUserId(session_state[s].user_info[1].email))
                    /\ Manager(s).user_id = Some(session_state[s].user_info[1].user_id)
          /\ \A s \in Sessions :
                HasManager(s) =>
                    \A i \in 1..Len(Manager(s).tasks) : Truthy(Manager(s).tasks[i].user_id)
          /\ \A i \in 1..Len(ReadAllTasks(file)) : Truthy(file.content[i].user_id))
    /\ [][/\ \A s \in Sessions :
                (/\ HasManager(s)
                 /\ HasManager(s)'
                 /\ TasksOf(session_state', s) /= Manager(s).tasks)
                => Authenticated(s)
          /\ (file' /= file \/ now' /= now) => \E s \in Sessions : Authenticated(s)]_vars

\* a session signed in with an email that differs from the user id derived
\* from it, whose task is in its working list and in tasks.json
C19_Witness ==
    \E s \in Sessions :
        /\ Authenticated(s)
        /\ session_state[s].user_info /= None
        /\ session_state[s].user_info[1].email /= session_state[s].user_info[1].user_id
        /\ Manager(s).tasks /= <<>>
        /\ Owned(Manager(s))
        /\ file.exists /\ file.valid
        /\ Mine(file.content, Manager(s).user_id) = Manager(s).tasks

====
